---- MODULE Spec2Model ----
(***************************************************************************)
(* Model of weather_check_agent.py (the later of the two versions in       *)
(* .history): main() and check_weather().                                  *)
(*                                                                         *)
(* Python strings are sequences of one-character strings, so that lower(), *)
(* strip(), replace(), split() and the `in` substring test are computed    *)
(* rather than assumed.  An optional value (None or a value) is a sequence *)
(* of length 0 or 1.                                                       *)
(*                                                                         *)
(* The browser (Selenium) is the environment: every call into it either    *)
(* returns one of a small set of values or raises.  driver.quit() and      *)
(* print() are taken to return normally.                                   *)
(***************************************************************************)
EXTENDS Integers, Sequences, FiniteSets, TLC

\* ------------------------------------------------------------------------
\* Bounds of the model
\* ------------------------------------------------------------------------

\* At most this many command-line arguments after the program name.
MaxArgs == 3
\* The page source is at most this many tokens of PageTokens.
MaxPageTokens == 2
\* The page title is at most this many tokens of TitleTokens.
MaxTitleTokens == 2
\* find_elements returns at most this many elements.
MaxElems == 1

\* ------------------------------------------------------------------------
\* Python string operations
\* ------------------------------------------------------------------------

None == << >>
Some(x) == << x >>

LowerMap ==
    [A |-> "a", B |-> "b", C |-> "c", D |-> "d", E |-> "e", F |-> "f",
     G |-> "g", H |-> "h", I |-> "i", J |-> "j", K |-> "k", L |-> "l",
     M |-> "m", N |-> "n", O |-> "o", P |-> "p", Q |-> "q", R |-> "r",
     S |-> "s", T |-> "t", U |-> "u", V |-> "v", W |-> "w", X |-> "x",
     Y |-> "y", Z |-> "z"]

\* str.lower()
Lower(s) ==
    [n \in 1..Len(s) |-> IF s[n] \in DOMAIN LowerMap THEN LowerMap[s[n]] ELSE s[n]]

\* str.replace(a, b) for one-character a and b
Replace(s, a, b) == [n \in 1..Len(s) |-> IF s[n] = a THEN b ELSE s[n]]

\* `needle in hay`
Contains(hay, needle) ==
    \E n \in 0..(Len(hay) - Len(needle)) : SubSeq(hay, n + 1, n + Len(needle)) = needle

\* str.strip(): leading and trailing blanks removed
Strip(s) ==
    LET keep == {n \in 1..Len(s) : s[n] # " "}
    IN  IF keep = {} THEN << >>
        ELSE LET lo == CHOOSE n \in keep : \A m \in keep : n <= m
                 hi == CHOOSE n \in keep : \A m \in keep : m <= n
             IN  SubSeq(s, lo, hi)

\* str.split(d): the segments between the occurrences of d, always at least one
RECURSIVE Split(_, _)
Split(s, d) ==
    LET at == {n \in 1..Len(s) : s[n] = d}
    IN  IF at = {} THEN << s >>
        ELSE LET p == CHOOSE n \in at : \A m \in at : n <= m
             IN  << SubSeq(s, 1, p - 1) >> \o Split(SubSeq(s, p + 1, Len(s)), d)

\* Python truthiness of actual_condition: neither None nor ""
Truthy(opt) == opt # None /\ opt[1] # << >>

\* the concatenation of a sequence of strings
RECURSIVE Flatten(_)
Flatten(ss) == IF ss = << >> THEN << >> ELSE Head(ss) \o Flatten(Tail(ss))

\* all sequences over S of length at most n
SeqsUpTo(S, n) == UNION {[1..m -> S] : m \in 0..n}

\* ------------------------------------------------------------------------
\* Tables of the program
\* ------------------------------------------------------------------------

\* possible_selectors, in the order they are tried (the degree sign of the
\* sixth locator is written 'deg')
possible_selectors ==
    << [by |-> "id",    value |-> "wob_dc"],
       [by |-> "css",   value |-> ".wob_dc"],
       [by |-> "xpath", value |-> "//div[contains(@class, 'wob_dc')]"],
       [by |-> "xpath", value |-> "//div[@id='wob_dcp']/div"],
       [by |-> "xpath", value |-> "//div[contains(@aria-label, 'Weather')]//div[contains(@data-local-attribute, 'weather-condition')]"],
       [by |-> "xpath", value |-> "//div[contains(text(), 'deg')]/..//span"],
       [by |-> "xpath", value |-> "//div[@class='UQt4rd']"] >>

NumSelectors == Len(possible_selectors)

\* common_conditions, in the order they are looked for
common_conditions ==
    << <<"s","u","n","n","y">>,
       <<"c","l","o","u","d","y">>,
       <<"r","a","i","n">>,
       <<"p","a","r","t","l","y">>,
       <<"c","l","e","a","r">>,
       <<"s","t","o","r","m">>,
       <<"s","n","o","w">>,
       <<"f","o","g">>,
       <<"m","i","s","t">>,
       <<"d","r","i","z","z","l","e">>,
       <<"o","v","e","r","c","a","s","t">>,
       <<"h","a","z","e">> >>

NumConditions == Len(common_conditions)

\* the word looked for in the lower-cased title
TitleWord == <<"w","e","a","t","h","e","r">>

\* the character the title is split on
TitleDelimiter == "-"

DebugSuffix   == <<"_","d","e","b","u","g",".","p","n","g">>
WeatherSuffix == <<"_","w","e","a","t","h","e","r",".","p","n","g">>
ErrorSuffix   == <<"_","e","r","r","o","r",".","p","n","g">>

\* f"{city.replace(' ', '_')}<suffix>"
ShotName(city, suffix) == Replace(city, " ", "_") \o suffix

\* the strategies, numbered in priority order: the selectors, the keyword
\* scan, the title parse
KeywordStrategy == NumSelectors + 1
TitleStrategy   == NumSelectors + 2

\* ------------------------------------------------------------------------
\* What the environment can supply
\* ------------------------------------------------------------------------

\* command-line arguments
ArgStrings ==
    { <<"L"," ","A">>, <<"S","U","N">> }

\* the text of an element of the page
ElemTexts ==
    { <<" ">>, <<" ","S","u","n","n","y"," ">>, <<"r","a","i","n">> }

\* the pieces a page source is made of
PageTokens ==
    { <<"C","l","o","u","d","y">>, <<"r","a","i","n">>, <<"<","p",">">> }

\* the pieces a page title is made of
TitleTokens ==
    { <<"W","e","a","t","h","e","r"," ">>, <<"-">>, <<"R","a","i","n"," ">> }

PageSources == {Flatten(t) : t \in SeqsUpTo(PageTokens, MaxPageTokens)}
Titles      == {Flatten(t) : t \in SeqsUpTo(TitleTokens, MaxTitleTokens)}
ElemLists   == SeqsUpTo(ElemTexts, MaxElems)

\* ------------------------------------------------------------------------
\* State
\* ------------------------------------------------------------------------

VARIABLES
    argv,              \* sys.argv
    pc,                \* the statement the program is at
    called,            \* check_weather has been called
    driver,            \* 'driver' in locals(): the session exists
    i,                 \* index of the selector the loop is at
    actual_condition,  \* None, or the text extracted
    page_text,         \* None, or the lower-cased page source
    k,                 \* index of the keyword the scan is at
    title,             \* None, or driver.title once read
    is_match,          \* None, or the verdict
    result,            \* None, or the value check_weather returned
    propagating,       \* an exception is leaving check_weather
    files,             \* the screenshot files written
    quit_count,        \* calls of driver.quit()
    exit_status,       \* None, or the status the process ended with
    usage,             \* the usage text has been printed
    \* history of the run, read by the properties only
    handled,           \* the error handler (except Exception) was entered
    skipped,           \* selectors skipped on TimeoutException / NoSuchElementException
    tried,             \* the strategies attempted so far
    yields,            \* [strat, text]: strategies that gave non-empty trimmed text
    kwSource,          \* index of the keyword whose element gave the text, or 0
    kwNoElem,          \* keywords found in the page text for which no element was found
    shotFailed         \* the screenshots whose write raised

prog  == <<argv, pc, called, driver, i, actual_condition, page_text, k, title,
           is_match, result, propagating, files, quit_count, exit_status, usage>>
hist  == <<handled, skipped, tried, yields, kwSource, kwNoElem, shotFailed>>
vars  == <<prog, hist>>

city               == argv[2]
expected_condition == argv[3]

Init ==
    /\ argv \in {<< <<"w",".","p","y">> >> \o a : a \in SeqsUpTo(ArgStrings, MaxArgs)}
    /\ pc = "main"
    /\ called = FALSE
    /\ driver = FALSE
    /\ i = 1
    /\ actual_condition = None
    /\ page_text = None
    /\ k = 1
    /\ title = None
    /\ is_match = None
    /\ result = None
    /\ propagating = FALSE
    /\ files = {}
    /\ quit_count = 0
    /\ exit_status = None
    /\ usage = FALSE
    /\ handled = FALSE
    /\ skipped = 0
    /\ tried = {}
    /\ yields = {}
    /\ kwSource = 0
    /\ kwNoElem = {}
    /\ shotFailed = {}

\* ------------------------------------------------------------------------
\* main(), up to the call of check_weather
\* ------------------------------------------------------------------------

\* MainStart with the test `len(sys.argv) < 3`: extra arguments are let through
MainStart_TooFewOnly ==
    /\ pc = "main"
    /\ IF Len(argv) < 3
       THEN /\ usage' = TRUE
            /\ exit_status' = Some(1)
            /\ pc' = "exited"
            /\ UNCHANGED called
       ELSE /\ called' = TRUE
            /\ pc' = "setup"
            /\ UNCHANGED <<usage, exit_status>>
    /\ UNCHANGED <<argv, driver, i, actual_condition, page_text, k, title, is_match,
                   result, propagating, files, quit_count, hist>>

MainStart ==
    /\ pc = "main"
    /\ IF Len(argv) # 3
       THEN /\ usage' = TRUE
            /\ exit_status' = Some(1)
            /\ pc' = "exited"
            /\ UNCHANGED called
       ELSE /\ called' = TRUE
            /\ pc' = "setup"
            /\ UNCHANGED <<usage, exit_status>>
    /\ UNCHANGED <<argv, driver, i, actual_condition, page_text, k, title, is_match,
                   result, propagating, files, quit_count, hist>>

\* ------------------------------------------------------------------------
\* check_weather(): session setup and navigation
\* ------------------------------------------------------------------------

\* driver = webdriver.Chrome(...)
SetUp ==
    /\ pc = "setup"
    /\ \/ driver' = TRUE /\ pc' = "get"
       \/ driver' = FALSE /\ pc' = "except"
    /\ UNCHANGED <<argv, called, i, actual_condition, page_text, k, title, is_match,
                   result, propagating, files, quit_count, exit_status, usage, hist>>

\* driver.get(url); time.sleep(3)
Navigate ==
    /\ pc = "get"
    /\ \/ pc' = "selectors"
       \/ pc' = "except"
    /\ UNCHANGED <<argv, called, driver, i, actual_condition, page_text, k, title,
                   is_match, result, propagating, files, quit_count, exit_status,
                   usage, hist>>

\* ------------------------------------------------------------------------
\* Stage 2: the selectors
\* ------------------------------------------------------------------------

\* the for loop moves to the next selector, or ends after the last one
NextSelector ==
    IF i = NumSelectors
    THEN pc' = "stage3" /\ UNCHANGED i
    ELSE pc' = "selectors" /\ i' = i + 1

\* wait.until raises TimeoutException or NoSuchElementException: continue
SelectorSkipped ==
    /\ pc = "selectors"
    /\ \E e \in {"TimeoutException", "NoSuchElementException"} :
          /\ tried' = tried \cup {i}
          /\ skipped' = skipped + 1
          /\ NextSelector
    /\ UNCHANGED <<argv, called, driver, actual_condition, page_text, k, title,
                   is_match, result, propagating, files, quit_count, exit_status,
                   usage, handled, yields, kwSource, kwNoElem, shotFailed>>

\* wait.until or .text raises any other exception: it leaves the loop
SelectorRaises ==
    /\ pc = "selectors"
    /\ tried' = tried \cup {i}
    /\ pc' = "except"
    /\ UNCHANGED <<argv, called, driver, i, actual_condition, page_text, k, title,
                   is_match, result, propagating, files, quit_count, exit_status,
                   usage, handled, skipped, yields, kwSource, kwNoElem, shotFailed>>

\* SelectorFound without the break: the loop goes on after non-empty text
SelectorFound_NoBreak ==
    /\ pc = "selectors"
    /\ \E t \in ElemTexts :
          /\ tried' = tried \cup {i}
          /\ actual_condition' = Some(Strip(t))
          /\ yields' = IF Strip(t) # << >>
                       THEN yields \cup {[strat |-> i, text |-> Strip(t)]}
                       ELSE yields
          /\ NextSelector
    /\ UNCHANGED <<argv, called, driver, page_text, k, title, is_match, result,
                   propagating, files, quit_count, exit_status, usage, handled,
                   skipped, kwSource, kwNoElem, shotFailed>>

\* the element is found: actual_condition = weather_element.text.strip(),
\* and break if it is not empty
SelectorFound ==
    /\ pc = "selectors"
    /\ \E t \in ElemTexts :
          /\ tried' = tried \cup {i}
          /\ actual_condition' = Some(Strip(t))
          /\ IF Strip(t) # << >>
             THEN /\ yields' = yields \cup {[strat |-> i, text |-> Strip(t)]}
                  /\ pc' = "stage3"
                  /\ UNCHANGED i
             ELSE /\ NextSelector
                  /\ UNCHANGED yields
    /\ UNCHANGED <<argv, called, driver, page_text, k, title, is_match, result,
                   propagating, files, quit_count, exit_status, usage, handled,
                   skipped, kwSource, kwNoElem, shotFailed>>

\* ------------------------------------------------------------------------
\* Stage 3: the keyword scan
\* ------------------------------------------------------------------------

\* if not actual_condition:
Stage3Guard ==
    /\ pc = "stage3"
    /\ IF Truthy(actual_condition)
       THEN pc' = "stage4" /\ UNCHANGED tried
       ELSE pc' = "debug_shot" /\ tried' = tried \cup {KeywordStrategy}
    /\ UNCHANGED <<argv, called, driver, i, actual_condition, page_text, k, title,
                   is_match, result, propagating, files, quit_count, exit_status,
                   usage, handled, skipped, yields, kwSource, kwNoElem, shotFailed>>

\* driver.save_screenshot(debug_screenshot), inside the inner try: when it
\* raises, the inner handler ends Stage 3
DebugShot ==
    /\ pc = "debug_shot"
    /\ \/ /\ files' = files \cup {ShotName(city, DebugSuffix)}
          /\ pc' = "page_source"
          /\ UNCHANGED shotFailed
       \/ /\ shotFailed' = shotFailed \cup {"debug"}
          /\ pc' = "stage4"
          /\ UNCHANGED files
    /\ UNCHANGED <<argv, called, driver, i, actual_condition, page_text, k, title,
                   is_match, result, propagating, quit_count, exit_status, usage,
                   handled, skipped, tried, yields, kwSource, kwNoElem>>

\* page_text = driver.page_source.lower()
PageSource ==
    /\ pc = "page_source"
    /\ \/ \E src \in PageSources :
             /\ page_text' = Some(Lower(src))
             /\ pc' = "keywords"
       \/ /\ pc' = "stage4"
          /\ UNCHANGED page_text
    /\ UNCHANGED <<argv, called, driver, i, actual_condition, k, title, is_match,
                   result, propagating, files, quit_count, exit_status, usage, hist>>

\* the for loop over common_conditions ends after the last keyword
KeywordsDone ==
    /\ pc = "keywords"
    /\ k > NumConditions
    /\ pc' = "stage4"
    /\ UNCHANGED <<argv, called, driver, i, actual_condition, page_text, k, title,
                   is_match, result, propagating, files, quit_count, exit_status,
                   usage, hist>>

\* if condition in page_text: (false)
KeywordAbsent ==
    /\ pc = "keywords"
    /\ k <= NumConditions
    /\ ~Contains(page_text[1], common_conditions[k])
    /\ k' = k + 1
    /\ UNCHANGED <<argv, pc, called, driver, i, actual_condition, page_text, title,
                   is_match, result, propagating, files, quit_count, exit_status,
                   usage, hist>>

\* KeywordPresent without the break: the scan goes on after taking a text
KeywordPresent_NoBreak ==
    /\ pc = "keywords"
    /\ k <= NumConditions
    /\ Contains(page_text[1], common_conditions[k])
    /\ \/ /\ pc' = "stage4"
          /\ UNCHANGED <<actual_condition, k, yields, kwSource, kwNoElem>>
       \/ \E elements \in ElemLists :
             IF elements # << >>
             THEN /\ actual_condition' = Some(Strip(elements[1]))
                  /\ kwSource' = k
                  /\ yields' = IF Strip(elements[1]) # << >>
                               THEN yields \cup {[strat |-> KeywordStrategy,
                                                  text |-> Strip(elements[1])]}
                               ELSE yields
                  /\ k' = k + 1
                  /\ UNCHANGED <<pc, kwNoElem>>
             ELSE /\ kwNoElem' = kwNoElem \cup {k}
                  /\ k' = k + 1
                  /\ UNCHANGED <<pc, actual_condition, yields, kwSource>>
    /\ UNCHANGED <<argv, called, driver, i, page_text, title, is_match, result,
                   propagating, files, quit_count, exit_status, usage, handled,
                   skipped, tried, shotFailed>>

\* the keyword is in the page text; elements = driver.find_elements(...);
\* if elements: actual_condition = elements[0].text.strip(); break
KeywordPresent ==
    /\ pc = "keywords"
    /\ k <= NumConditions
    /\ Contains(page_text[1], common_conditions[k])
    /\ \/ \* find_elements, or the read of .text, raises: the inner handler
          /\ pc' = "stage4"
          /\ UNCHANGED <<actual_condition, k, yields, kwSource, kwNoElem>>
       \/ \E elements \in ElemLists :
             IF elements # << >>
             THEN /\ actual_condition' = Some(Strip(elements[1]))
                  /\ kwSource' = k
                  /\ yields' = IF Strip(elements[1]) # << >>
                               THEN yields \cup {[strat |-> KeywordStrategy,
                                                  text |-> Strip(elements[1])]}
                               ELSE yields
                  /\ pc' = "stage4"
                  /\ UNCHANGED <<k, kwNoElem>>
             ELSE /\ kwNoElem' = kwNoElem \cup {k}
                  /\ k' = k + 1
                  /\ UNCHANGED <<pc, actual_condition, yields, kwSource>>
    /\ UNCHANGED <<argv, called, driver, i, page_text, title, is_match, result,
                   propagating, files, quit_count, exit_status, usage, handled,
                   skipped, tried, shotFailed>>

\* ------------------------------------------------------------------------
\* Stage 4: the page title
\* ------------------------------------------------------------------------

\* TitleCondition without the test `len(parts) > 1`
TitleCondition_NoLenCheck(t) ==
    IF Contains(Lower(t), TitleWord)
    THEN Some(Strip(Split(t, TitleDelimiter)[1]))
    ELSE None

\* the text the title gives: parts[0].strip() when the lower-cased title
\* contains "weather" and the split gives more than one part
TitleCondition(t) ==
    IF Contains(Lower(t), TitleWord) /\ Len(Split(t, TitleDelimiter)) > 1
    THEN Some(Strip(Split(t, TitleDelimiter)[1]))
    ELSE None

\* if not actual_condition: title = driver.title ...
TitleFallback ==
    /\ pc = "stage4"
    /\ IF Truthy(actual_condition)
       THEN /\ pc' = "final"
            /\ UNCHANGED <<title, actual_condition, tried, yields>>
       ELSE /\ tried' = tried \cup {TitleStrategy}
            /\ \/ \E t \in Titles :
                     /\ title' = Some(t)
                     /\ actual_condition' = IF TitleCondition(t) # None
                                            THEN TitleCondition(t)
                                            ELSE actual_condition
                     /\ yields' = IF Truthy(TitleCondition(t))
                                  THEN yields \cup {[strat |-> TitleStrategy,
                                                     text |-> TitleCondition(t)[1]]}
                                  ELSE yields
                     /\ pc' = "final"
               \/ \* driver.title raises
                  /\ pc' = "except"
                  /\ UNCHANGED <<title, actual_condition, yields>>
    /\ UNCHANGED <<argv, called, driver, i, page_text, k, is_match, result,
                   propagating, files, quit_count, exit_status, usage, handled,
                   skipped, kwSource, kwNoElem, shotFailed>>

\* ------------------------------------------------------------------------
\* Stage 5: the verdict
\* ------------------------------------------------------------------------

\* FinalCheck raising instead of returning False
FinalCheck_Raises ==
    /\ pc = "final"
    /\ IF Truthy(actual_condition)
       THEN pc' = "compare"
       ELSE pc' = "except"
    /\ UNCHANGED <<argv, called, driver, i, actual_condition, page_text, k, title,
                   is_match, result, propagating, files, quit_count, exit_status,
                   usage, hist>>

\* if not actual_condition: return False
FinalCheck ==
    /\ pc = "final"
    /\ IF Truthy(actual_condition)
       THEN pc' = "compare" /\ UNCHANGED result
       ELSE pc' = "finally" /\ result' = Some(FALSE)
    /\ UNCHANGED <<argv, called, driver, i, actual_condition, page_text, k, title,
                   is_match, propagating, files, quit_count, exit_status, usage,
                   hist>>

\* expected_condition.lower() in actual_condition.lower()
IsMatch(expected, actual) == Contains(Lower(actual), Lower(expected))

Compare ==
    /\ pc = "compare"
    /\ is_match' = Some(IsMatch(expected_condition, actual_condition[1]))
    /\ pc' = "weather_shot"
    /\ UNCHANGED <<argv, called, driver, i, actual_condition, page_text, k, title,
                   result, propagating, files, quit_count, exit_status, usage, hist>>

\* driver.save_screenshot(screenshot_path); return is_match
WeatherShot ==
    /\ pc = "weather_shot"
    /\ \/ /\ files' = files \cup {ShotName(city, WeatherSuffix)}
          /\ result' = is_match
          /\ pc' = "finally"
          /\ UNCHANGED shotFailed
       \/ /\ shotFailed' = shotFailed \cup {"weather"}
          /\ pc' = "except"
          /\ UNCHANGED <<files, result>>
    /\ UNCHANGED <<argv, called, driver, i, actual_condition, page_text, k, title,
                   is_match, propagating, quit_count, exit_status, usage, handled,
                   skipped, tried, yields, kwSource, kwNoElem>>

\* ------------------------------------------------------------------------
\* except Exception / finally
\* ------------------------------------------------------------------------

\* ErrorHandler writing the error screenshot under the success name
ErrorHandler_WeatherName ==
    /\ pc = "except"
    /\ handled' = TRUE
    /\ pc' = "finally"
    /\ IF driver
       THEN \/ /\ files' = files \cup {ShotName(city, WeatherSuffix)}
               /\ result' = Some(FALSE)
               /\ UNCHANGED <<propagating, shotFailed>>
            \/ /\ shotFailed' = shotFailed \cup {"error"}
               /\ propagating' = TRUE
               /\ UNCHANGED <<files, result>>
       ELSE /\ result' = Some(FALSE)
            /\ UNCHANGED <<files, propagating, shotFailed>>
    /\ UNCHANGED <<argv, called, driver, i, actual_condition, page_text, k, title,
                   is_match, quit_count, exit_status, usage, skipped, tried, yields,
                   kwSource, kwNoElem>>

\* except Exception as e: the error screenshot when the session exists, then
\* return False; an exception raised by the screenshot leaves check_weather
ErrorHandler ==
    /\ pc = "except"
    /\ handled' = TRUE
    /\ pc' = "finally"
    /\ IF driver
       THEN \/ /\ files' = files \cup {ShotName(city, ErrorSuffix)}
               /\ result' = Some(FALSE)
               /\ UNCHANGED <<propagating, shotFailed>>
            \/ /\ shotFailed' = shotFailed \cup {"error"}
               /\ propagating' = TRUE
               /\ UNCHANGED <<files, result>>
       ELSE /\ result' = Some(FALSE)
            /\ UNCHANGED <<files, propagating, shotFailed>>
    /\ UNCHANGED <<argv, called, driver, i, actual_condition, page_text, k, title,
                   is_match, quit_count, exit_status, usage, skipped, tried, yields,
                   kwSource, kwNoElem>>

\* Finally with driver.quit() moved to the end of the try block: it is not
\* reached once the error handler has run
Finally_QuitUnlessError ==
    /\ pc = "finally"
    /\ quit_count' = IF driver /\ ~handled THEN quit_count + 1 ELSE quit_count
    /\ pc' = "returned"
    /\ UNCHANGED <<argv, called, driver, i, actual_condition, page_text, k, title,
                   is_match, result, propagating, files, exit_status, usage, hist>>

\* finally: if 'driver' in locals(): driver.quit()
Finally ==
    /\ pc = "finally"
    /\ quit_count' = IF driver THEN quit_count + 1 ELSE quit_count
    /\ pc' = "returned"
    /\ UNCHANGED <<argv, called, driver, i, actual_condition, page_text, k, title,
                   is_match, result, propagating, files, exit_status, usage, hist>>

\* ------------------------------------------------------------------------
\* main(), after check_weather
\* ------------------------------------------------------------------------

\* sys.exit(0 if result else 1); an exception that left check_weather is
\* uncaught in main and ends the interpreter with status 1
MainExit ==
    /\ pc = "returned"
    /\ exit_status' = IF propagating THEN Some(1)
                      ELSE IF result[1] THEN Some(0) ELSE Some(1)
    /\ pc' = "exited"
    /\ UNCHANGED <<argv, called, driver, i, actual_condition, page_text, k, title,
                   is_match, result, propagating, files, quit_count, usage, hist>>

Next ==
    \/ MainStart
    \/ SetUp
    \/ Navigate
    \/ SelectorSkipped
    \/ SelectorRaises
    \/ SelectorFound
    \/ Stage3Guard
    \/ DebugShot
    \/ PageSource
    \/ KeywordsDone
    \/ KeywordAbsent
    \/ KeywordPresent
    \/ TitleFallback
    \/ FinalCheck
    \/ Compare
    \/ WeatherShot
    \/ ErrorHandler
    \/ Finally
    \/ MainExit

Spec == Init /\ [][Next]_vars

\* ------------------------------------------------------------------------
\* Properties
\* ------------------------------------------------------------------------

\* C1 (as claimed): in a run with two arguments in which a stage yielded a
\* non-empty text T, the exit status is 0 when lower(expected_condition) is
\* a substring of lower(T), and 1 otherwise.
C1_ExitStatusFollowsText ==
    (pc = "exited" /\ Len(argv) = 3) =>
        \A y \in yields :
            exit_status = Some(IF Contains(Lower(y.text), Lower(expected_condition))
                               THEN 0 ELSE 1)

\* C2 (as claimed): whichever step ends check_weather, setup failure
\* included, driver.quit() has been called exactly once when it finishes.
C2_QuitExactlyOnce ==
    (called /\ pc \in {"returned", "exited"}) => quit_count = 1

\* C2 (amended): driver.quit() is never called twice; when check_weather
\* finishes it has been called exactly once if the session was created and
\* not at all if webdriver.Chrome raised; it is not called before the
\* finally block.
C2_QuitOncePerSession ==
    /\ quit_count \in {0, 1}
    /\ (called /\ pc \in {"returned", "exited"}) =>
           quit_count = (IF driver THEN 1 ELSE 0)
    /\ pc \notin {"returned", "exited"} => quit_count = 0

\* the session was created, the error screenshot raised, and the session
\* was released once all the same
C2_Witness ==
    /\ pc = "returned"
    /\ driver
    /\ "error" \in shotFailed
    /\ propagating
    /\ quit_count = 1

\* C3 (as claimed): a screenshot write that fails does not change the
\* result: once the verdict is computed, check_weather returns it and the
\* exit status follows it, as in the run where the _weather.png write
\* succeeds.
C3_ScreenshotFailureKeepsResult ==
    (pc = "exited" /\ "weather" \in shotFailed) =>
        /\ result = is_match
        /\ exit_status = Some(IF is_match[1] THEN 0 ELSE 1)

\* C4 (as claimed): no exception leaves check_weather: it always returns a
\* value, and False once an error was raised.
C4_NoExceptionLeaves ==
    /\ ~propagating
    /\ (called /\ pc \in {"returned", "exited"}) => result # None
    /\ (handled /\ pc \in {"returned", "exited"}) => result = Some(FALSE)

\* C5 (as claimed): with a session, a run that succeeds writes _weather.png
\* and a run that fails writes _error.png and no _weather.png.  Stated for
\* the runs in which no screenshot write raised.
C5_ShotNamedByOutcome ==
    (pc = "exited" /\ driver /\ shotFailed = {}) =>
        IF result = Some(TRUE)
        THEN ShotName(city, WeatherSuffix) \in files
        ELSE /\ ShotName(city, ErrorSuffix) \in files
             /\ ShotName(city, WeatherSuffix) \notin files

\* C5 (amended): when check_weather has finished, _weather.png is there
\* exactly when the verdict was computed, match or mismatch, and its write
\* did not raise; _error.png is there exactly when the error handler ran
\* with a session and its write did not raise; a run that ends in fallback
\* exhaustion writes neither; a run that returns True has written
\* _weather.png; the names are the city with blanks as underscores.
C5_ShotWrittenByPath ==
    (called /\ pc \in {"returned", "exited"}) =>
        LET base    == [n \in 1..Len(city) |-> IF city[n] = " " THEN "_" ELSE city[n]]
            weather == base \o WeatherSuffix
            error   == base \o ErrorSuffix
            debug   == base \o DebugSuffix
        IN  /\ files \subseteq {weather, error, debug}
            /\ weather \in files <=> (is_match # None /\ "weather" \notin shotFailed)
            /\ error \in files <=> (handled /\ driver /\ "error" \notin shotFailed)
            /\ (is_match = None /\ ~handled) => (weather \notin files /\ error \notin files)
            /\ result = Some(TRUE) => weather \in files

\* a mismatch for a city with a blank: _weather.png written, no _error.png
C5_Witness ==
    /\ pc = "exited"
    /\ Len(argv) = 3
    /\ city = <<"L"," ","A">>
    /\ is_match = Some(FALSE)
    /\ result = Some(FALSE)
    /\ exit_status = Some(1)
    /\ <<"L","_","A">> \o WeatherSuffix \in files
    /\ <<"L","_","A">> \o ErrorSuffix \notin files

\* C6: with any number of arguments other than two, main prints the usage
\* text and exits with status 1; check_weather is not called, no session is
\* created and no screenshot is written.
C6_WrongArgCount ==
    Len(argv) # 3 =>
        /\ pc \in {"main", "exited"}
        /\ ~called
        /\ ~driver
        /\ files = {}
        /\ quit_count = 0
        /\ pc = "exited" => (usage /\ exit_status = Some(1))

\* three arguments given, the run has ended
C6_Witness ==
    /\ Len(argv) = 4
    /\ pc = "exited"
    /\ usage
    /\ exit_status = Some(1)

\* C7: the strategies are attempted in the order selector 1..7, keyword
\* scan, title parse; a selector that times out or is not found is skipped
\* and the run goes on; the extraction result, once not empty, is the
\* trimmed text of the one strategy that gave non-empty text, no strategy is
\* attempted after it, and it is not overwritten.
C7_FirstSuccessWins ==
    /\ [](/\ \A s \in tried : \A r \in 1..(s - 1) : r \in tried
          /\ \A y, z \in yields : y = z
          /\ Truthy(actual_condition) =>
                \E y \in yields :
                    /\ actual_condition = Some(y.text)
                    /\ \A s \in tried : s <= y.strat)
    /\ [][/\ Truthy(actual_condition) =>
                (actual_condition' = actual_condition /\ tried' = tried)
          /\ \A s \in tried' \ tried : \A r \in tried : r < s
          /\ skipped' # skipped => (pc' \in {"selectors", "stage3"} /\ ~handled')]_vars

\* selector 1 was skipped, selector 2 gave the text, nothing later was tried
C7_Witness ==
    /\ pc = "exited"
    /\ skipped = 1
    /\ tried = {1, 2}
    /\ yields = {[strat |-> 2, text |-> <<"S","u","n","n","y">>]}
    /\ actual_condition = Some(<<"S","u","n","n","y">>)

\* C8 (as claimed): when the keyword scan takes a text, no keyword earlier
\* in common_conditions appears in the page text.
C8_KeywordPriority ==
    kwSource # 0 =>
        \A j \in 1..(kwSource - 1) : ~Contains(page_text[1], common_conditions[j])

\* C8 (amended): the keyword scan takes the text of the first element found
\* for the earliest keyword of common_conditions that appears in the page
\* text and for which an element is found; a keyword that appears in the
\* page text but has no element is passed over, and once a text is taken no
\* further keyword is looked at.
C8_EarliestKeywordWithElement ==
    kwSource # 0 =>
        /\ Contains(page_text[1], common_conditions[kwSource])
        /\ \A j \in 1..(kwSource - 1) :
              Contains(page_text[1], common_conditions[j]) => j \in kwNoElem
        /\ kwSource \notin kwNoElem
        /\ k = kwSource
        /\ pc # "keywords"

\* "cloudy" and "rain" are both in the page text, no element was found for
\* "cloudy", and the text comes from the element found for "rain"
C8_Witness ==
    /\ kwSource = 3
    /\ 2 \in kwNoElem
    /\ Contains(page_text[1], common_conditions[2])
    /\ Contains(page_text[1], common_conditions[3])
    /\ actual_condition = Some(<<"r","a","i","n">>)

\* C9 (as claimed): when the title is read (Stages 2 and 3 gave nothing) and
\* contains "weather" in any case, its first segment is the extraction
\* result and the run goes on to the verdict.
C9_TitleFirstSegment ==
    (pc = "final" /\ title # None /\ Contains(Lower(title[1]), TitleWord)) =>
        /\ Truthy(actual_condition)
        /\ actual_condition = Some(Strip(Split(title[1], TitleDelimiter)[1]))

\* C9 (amended): when the title is read and contains "weather" in any case
\* and at least one "-", the trimmed text before the first "-" is the
\* extraction result, and the run goes on to the verdict exactly when that
\* text is not empty; a title without "-" or without "weather" leaves the
\* run without an extraction result.
C9_TitleSplitOnDash ==
    title # None =>
        LET t     == title[1]
            parts == Split(t, TitleDelimiter)
            usable == Contains(Lower(t), TitleWord) /\ \E n \in 1..Len(t) : t[n] = "-"
        IN  /\ pc = "final" =>
                IF usable
                THEN actual_condition = Some(Strip(parts[1]))
                ELSE ~Truthy(actual_condition)
            /\ pc \in {"compare", "weather_shot"} =>
                (usable /\ Strip(parts[1]) # << >>)
            /\ (pc = "finally" /\ ~handled /\ is_match = None) =>
                (~usable \/ Strip(parts[1]) = << >>)

\* the title "Weather -" gave "Weather"
C9_Witness ==
    /\ pc = "compare"
    /\ title = Some(<<"W","e","a","t","h","e","r"," ","-">>)
    /\ actual_condition = Some(<<"W","e","a","t","h","e","r">>)

\* C10: when every selector timed out or was not found, no keyword of
\* common_conditions is in the page text and the title lacks "weather",
\* check_weather returns False with no extraction result, the error handler
\* is not entered, no comparison is made, and the exit status is 1.
C10_FallbackExhaustion ==
    (/\ pc = "exited"
     /\ skipped = NumSelectors
     /\ page_text # None =>
            \A j \in 1..NumConditions : ~Contains(page_text[1], common_conditions[j])
     /\ title # None
     /\ ~Contains(Lower(title[1]), TitleWord)) =>
        /\ result = Some(FALSE)
        /\ actual_condition = None
        /\ ~handled
        /\ ~propagating
        /\ is_match = None
        /\ exit_status = Some(1)

\* all seven selectors skipped, a page text without keyword, a title
\* without "weather"
C10_Witness ==
    /\ pc = "exited"
    /\ skipped = NumSelectors
    /\ page_text = Some(<<"<","p",">">>)
    /\ title = Some(<<"R","a","i","n"," ","-">>)
    /\ result = Some(FALSE)
    /\ exit_status = Some(1)

====
